---------------------------- MODULE Spec2Model ----------------------------
(***************************************************************************)
(* A model of SoRer (SamedhG/sorer): the nom field parsers and             *)
(* parse_line_with_schema of src/src/parsers.rs, and the parallel chunked  *)
(* reader from_file / read_chunk and the SorTerator of                     *)
(* src/src/dataframe.rs.                                                   *)
(*                                                                         *)
(* A byte slice is a sequence of one-character strings.  A nom IResult is  *)
(* a record [ok, panic, rem, val]: ok with the remaining input and the     *)
(* value, an Err (ok = FALSE), or a Rust panic raised while parsing        *)
(* (panic = TRUE).  Every Data value has the same three fields:            *)
(*   t  the variant, "Null" "Bool" "Int" "Float" "String";                 *)
(*   s  the payload as characters (a Bool: <<"1">> or <<"0">>; an Int: its *)
(*      decimal digits without leading zeros, "-" first when negative; a   *)
(*      Float: the digits of its decimal mantissa without leading or       *)
(*      trailing zeros, "-" first when negative; a String: its bytes);     *)
(*   e  the decimal exponent of a Float (value = mantissa * 10^e), else 0. *)
(* An i64 is kept as its decimal digits because its range is wider than    *)
(* the integers of the model checker; the range test of str::parse::<i64>  *)
(* is made on the digits.                                                  *)
(***************************************************************************)
EXTENDS Integers, Sequences, FiniteSets, TLC

NL == "\n"
WS == {" ", "\t", "\r", NL}
DigitChars == <<"0", "1", "2", "3", "4", "5", "6", "7", "8", "9">>
Digits == {DigitChars[n] : n \in 1..10}
DigitVal(c) == (CHOOSE n \in 1..10 : DigitChars[n] = c) - 1

Take(i, n) == SubSeq(i, 1, n)
Drop(i, n) == SubSeq(i, n + 1, Len(i))

\* the number of leading elements of i, after the first n, that lie in S
RECURSIVE RunIn(_, _, _)
RunIn(i, S, n) ==
    IF n < Len(i) /\ i[n + 1] \in S THEN RunIn(i, S, n + 1) ELSE n

\* the number of leading elements of i, after the first n, that lie outside S
RECURSIVE RunNotIn(_, _, _)
RunNotIn(i, S, n) ==
    IF n < Len(i) /\ i[n + 1] \notin S THEN RunNotIn(i, S, n + 1) ELSE n

NullData == [t |-> "Null", s |-> <<>>, e |-> 0]
MkData(t, s, e) == [t |-> t, s |-> s, e |-> e]

IOk(rem, val) == [ok |-> TRUE, panic |-> FALSE, rem |-> rem, val |-> val]
IErr == [ok |-> FALSE, panic |-> FALSE, rem |-> <<>>, val |-> NullData]
IPanic == [ok |-> FALSE, panic |-> TRUE, rem |-> <<>>, val |-> NullData]

\* nom::character::complete::multispace0: the input after its leading
\* spaces, tabs, carriage returns and newlines
multispace0(i) == Drop(i, RunIn(i, WS, 0))

StripLeadingZeros(d) == Drop(d, RunIn(d, {"0"}, 0))

RECURSIVE StripTrailingZeros(_)
StripTrailingZeros(d) ==
    IF d # <<>> /\ d[Len(d)] = "0"
    THEN StripTrailingZeros(Take(d, Len(d) - 1))
    ELSE d

\* a > b for two digit strings of the same length
RECURSIVE DigitsGreater(_, _)
DigitsGreater(a, b) ==
    IF a = <<>> THEN FALSE
    ELSE IF DigitVal(Head(a)) # DigitVal(Head(b))
         THEN DigitVal(Head(a)) > DigitVal(Head(b))
         ELSE DigitsGreater(Tail(a), Tail(b))

\* i64::MAX = 9223372036854775807, as digits
I64MaxDigits ==
    <<"9", "2", "2", "3", "3", "7", "2", "0", "3", "6",
      "8", "5", "4", "7", "7", "5", "8", "0", "7">>

\* str::parse::<i64> of a run of digits fails when the number exceeds i64::MAX
ParseI64Fails(number) ==
    LET m == StripLeadingZeros(number)
    IN  \/ Len(m) > Len(I64MaxDigits)
        \/ Len(m) = Len(I64MaxDigits) /\ DigitsGreater(m, I64MaxDigits)

RECURSIVE DigitsToNat(_)
DigitsToNat(d) ==
    IF d = <<>> THEN 0
    ELSE 10 * DigitsToNat(Take(d, Len(d) - 1)) + DigitVal(d[Len(d)])

parse_bool(i) ==
    IF i # <<>> /\ Head(i) = "1" THEN IOk(Tail(i), MkData("Bool", <<"1">>, 0))
    ELSE IF i # <<>> /\ Head(i) = "0"
         THEN IOk(Tail(i), MkData("Bool", <<"0">>, 0))
         ELSE IErr

\* opt(sign) digit1, then parse::<i64>().unwrap() * multiplier
parse_int(i) ==
    LET signed == i # <<>> /\ Head(i) \in {"+", "-"}
        rest == IF signed THEN Tail(i) ELSE i
        n == RunIn(rest, Digits, 0)
        number == Take(rest, n)
        m == StripLeadingZeros(number)
        neg == signed /\ Head(i) = "-" /\ m # <<>>
    IN  IF n = 0 THEN IErr
        ELSE IF ParseI64Fails(number) THEN IPanic
        ELSE IOk(Drop(rest, n),
                 MkData("Int",
                        (IF neg THEN <<"-">> ELSE <<>>)
                            \o (IF m = <<>> THEN <<"0">> ELSE m),
                        0))

\* i has a byte of S at offset p
HasAt(i, p, S) == p < Len(i) /\ i[p + 1] \in S

\* the decimal value of a float literal: sign, integer digits, fraction
\* digits and exponent; -0.0 equals 0.0
FloatData(neg, intd, fracd, expv) ==
    LET m1 == StripLeadingZeros(intd \o fracd)
        m2 == StripTrailingZeros(m1)
    IN  IF m2 = <<>> THEN MkData("Float", <<"0">>, 0)
        ELSE MkData("Float", (IF neg THEN <<"-">> ELSE <<>>) \o m2,
                    expv - Len(fracd) + (Len(m1) - Len(m2)))

\* the literal whose sign ends at p0, integer digits at p1, fraction at p2,
\* and whose exponent digits are i[p3+1..p4] (p3 = p4 = p2 without exponent)
FloatLiteral(i, p0, p1, p2, p3, p4) ==
    IOk(Drop(i, p4),
        FloatData(p0 = 1 /\ i[1] = "-",
                  SubSeq(i, p0 + 1, p1),
                  SubSeq(i, p1 + 2, p2),
                  (IF p3 > p2 + 1 /\ HasAt(i, p3 - 1, {"-"}) THEN -1 ELSE 1)
                      * DigitsToNat(SubSeq(i, p3 + 1, p4))))

\* opt(tuple((e|E, opt(sign), cut(digit1)))) with the exponent digits
\* starting at p3
float_exponent(i, p0, p1, p2, p3) ==
    IF RunIn(i, Digits, p3) = p3 THEN IErr
    ELSE FloatLiteral(i, p0, p1, p2, p3, RunIn(i, Digits, p3))

float_fraction(i, p0, p1, p2) ==
    IF p1 = p0 /\ p2 <= p1 + 1 THEN IErr
    ELSE IF HasAt(i, p2, {"e", "E"})
         THEN float_exponent(i, p0, p1, p2,
                             IF HasAt(i, p2 + 1, {"+", "-"}) THEN p2 + 2
                             ELSE p2 + 1)
         ELSE FloatLiteral(i, p0, p1, p2, p2, p2)

float_integer(i, p0, p1) ==
    float_fraction(i, p0, p1,
                   IF HasAt(i, p1, {"."}) THEN RunIn(i, Digits, p1 + 1)
                   ELSE p1)

\* nom::number::complete::double: opt(sign), then digit1 opt(. opt(digit1))
\* or . digit1, then opt(e|E opt(sign) cut(digit1)).  The value is kept as
\* an exact decimal (binary64 rounding is not modelled).
parse_float(i) ==
    float_integer(i, IF HasAt(i, 0, {"+", "-"}) THEN 1 ELSE 0,
                  RunIn(i, Digits, IF HasAt(i, 0, {"+", "-"}) THEN 1 ELSE 0))

\* alt((delimited(tag("\""), is_not("\""), tag("\"")), is_not(" >")))
parse_string(i) ==
    LET nq == IF i # <<>> /\ Head(i) = "\""
              THEN RunNotIn(Tail(i), {"\""}, 0) ELSE 0
        quoted == /\ i # <<>> /\ Head(i) = "\""
                  /\ nq > 0
                  /\ Len(i) >= nq + 2
                  /\ i[nq + 2] = "\""
        nu == RunNotIn(i, {" ", ">"}, 0)
    IN  IF quoted
        THEN IOk(Drop(i, nq + 2), MkData("String", SubSeq(i, 2, nq + 1), 0))
        ELSE IF nu > 0
             THEN IOk(Drop(i, nu), MkData("String", Take(i, nu), 0))
             ELSE IErr

\* map(multispace0, |_| Data::Null)
parse_null(i) == IOk(multispace0(i), NullData)

\* terminated(tag("<"), multispace0): the opening of a delimited field
DelimOpen(i) ==
    IF i # <<>> /\ Head(i) = "<" THEN IOk(multispace0(Tail(i)), NullData)
    ELSE IErr

\* preceded(multispace0, tag(">")) after the inner parser's result r
DelimClose(r) ==
    LET x == multispace0(r.rem)
    IN  IF ~r.ok THEN r
        ELSE IF x # <<>> /\ Head(x) = ">" THEN IOk(Tail(x), r.val)
             ELSE IErr

parse_delimited_bool(i) ==
    IF DelimOpen(i).ok THEN DelimClose(parse_bool(DelimOpen(i).rem)) ELSE IErr

parse_delimited_int(i) ==
    IF DelimOpen(i).ok THEN DelimClose(parse_int(DelimOpen(i).rem)) ELSE IErr

parse_delimited_string(i) ==
    IF DelimOpen(i).ok THEN DelimClose(parse_string(DelimOpen(i).rem))
    ELSE IErr

parse_delimited_float(i) ==
    IF DelimOpen(i).ok THEN DelimClose(parse_float(DelimOpen(i).rem))
    ELSE IErr

parse_delimited_null(i) ==
    IF DelimOpen(i).ok THEN DelimClose(parse_null(DelimOpen(i).rem)) ELSE IErr


\* mutant: the Int arm calls the Float parser
parse_typed_field_int_as_float(column_type, i) ==
    IF column_type = "String" THEN parse_delimited_string(i)
    ELSE IF column_type = "Float" THEN parse_delimited_float(i)
    ELSE IF column_type = "Int" THEN parse_delimited_float(i)
    ELSE parse_delimited_bool(i)

\* the match on column_type of parse_line_with_schema: the next delimited
\* field parsed as the column's type
parse_typed_field(column_type, i) ==
    IF column_type = "String" THEN parse_delimited_string(i)
    ELSE IF column_type = "Float" THEN parse_delimited_float(i)
    ELSE IF column_type = "Int" THEN parse_delimited_int(i)
    ELSE parse_delimited_bool(i)

LineSome(row) == [kind |-> "Some", row |-> row]
LineNone == [kind |-> "None", row |-> <<>>]
LinePanic == [kind |-> "Panic", row |-> <<>>]

\* mutant: an exhausted slice gets no cell
push_missing_nothing(result) == result

\* mutant: input left after the last column rejects the line, as it does
\* in parse_line
loop_end_rejects_rest(remaining_input, result) ==
    IF multispace0(remaining_input) = <<>> THEN LineSome(result)
    ELSE LineNone

\* lines 206-209: the slice is exhausted, the column gets a Null
push_missing(result) == Append(result, NullData)

\* line 247: after the last column whatever input remains is not looked at
loop_end(remaining_input, result) == LineSome(result)

\* the for loop of parse_line_with_schema from column c on
RECURSIVE schema_loop(_, _, _, _)
schema_loop(remaining_input, schema, c, result) ==
    LET x == multispace0(remaining_input)
        n == parse_delimited_null(x)
        r == parse_typed_field(schema[c], x)
    IN  IF c > Len(schema) THEN loop_end(remaining_input, result)
        ELSE IF x = <<>>
             THEN schema_loop(x, schema, c + 1, push_missing(result))
        ELSE IF n.ok
             THEN schema_loop(n.rem, schema, c + 1, Append(result, n.val))
        ELSE IF r.ok
             THEN schema_loop(r.rem, schema, c + 1, Append(result, r.val))
        ELSE IF r.panic THEN LinePanic
        ELSE LineNone

parse_line_with_schema(i, schema) ==
    IF i = <<>> THEN LineNone ELSE schema_loop(i, schema, 1, <<>>)

\* mutant: after Null, the String form is tried first
parse_field_string_first(i) ==
    IF parse_delimited_null(i).ok THEN parse_delimited_null(i)
    ELSE parse_delimited_string(i)

\* alt((null, bool, int, float, string)): the first form that does not
\* return an Err; a panic inside a form ends the call
parse_field(i) ==
    IF parse_delimited_null(i).ok THEN parse_delimited_null(i)
    ELSE IF parse_delimited_bool(i).ok THEN parse_delimited_bool(i)
    ELSE IF parse_delimited_int(i).ok \/ parse_delimited_int(i).panic
         THEN parse_delimited_int(i)
    ELSE IF parse_delimited_float(i).ok THEN parse_delimited_float(i)
    ELSE parse_delimited_string(i)

\* delimited(multispace0, parse_field, multispace0)
spaced_field(i) ==
    LET r == parse_field(multispace0(i))
    IN  IF r.ok THEN IOk(multispace0(r.rem), r.val) ELSE r

ManyOk(rem, row) == [panic |-> FALSE, rem |-> rem, row |-> row]
ManyPanic == [panic |-> TRUE, rem |-> <<>>, row |-> <<>>]

\* many0(...): fields are taken until one returns an Err; the input left is
\* the input before that attempt
RECURSIVE many0(_, _)
many0(i, acc) ==
    LET r == spaced_field(i)
    IN  IF r.panic THEN ManyPanic
        ELSE IF ~r.ok THEN ManyOk(i, acc)
        ELSE many0(r.rem, Append(acc, r.val))

\* mutant: input left over is not looked at
remaining_check_none(remaining_input, data) == LineSome(data)

\* lines 150-154: anything left over rejects the line
remaining_check(remaining_input, data) ==
    IF remaining_input # <<>> THEN LineNone ELSE LineSome(data)

\* lines 148-154: the unwrap of many0's result and the test of what is left
many0_unwrap(m) ==
    IF m.panic THEN LinePanic ELSE remaining_check(m.rem, m.row)

parse_line(i) == many0_unwrap(many0(i, <<>>))

(***************************************************************************)
(* Tables.  A Column is [variant, cells]; a cell is a Data value of the    *)
(* column's variant (Some) or NullData (None).                             *)
(***************************************************************************)
init_columnar(schema) ==
    [c \in 1..Len(schema) |-> [variant |-> schema[c], cells |-> <<>>]]

Min(a, b) == IF a < b THEN a ELSE b

\* the match (d, col) of read_chunk and SorTerator::next has an arm for d
PushArm(d, col) == d.t = col.variant \/ d.t = "Null"

\* for (d, col) in data.iter().zip(parsed_data.iter_mut()): push or panic
PushPanics(data, cols) ==
    \E c \in 1..Min(Len(data), Len(cols)) : ~PushArm(data[c], cols[c])

PushRow(data, cols) ==
    [c \in 1..Len(cols) |->
        IF c <= Len(data)
        THEN [cols[c] EXCEPT !.cells = Append(@, data[c])]
        ELSE cols[c]]

\* the match (complete, partial) of from_file has an arm
MergeArm(complete, partial) == complete.variant = partial.variant

MergePanics(complete, partial) ==
    \E c \in 1..Min(Len(complete), Len(partial)) :
        ~MergeArm(complete[c], partial[c])

MergeCols(complete, partial) ==
    [c \in 1..Len(complete) |->
        IF c <= Len(partial)
        THEN [complete[c] EXCEPT !.cells = @ \o partial[c].cells]
        ELSE complete[c]]

(***************************************************************************)
(* Files.  A file is its bytes; offsets count from 0.                      *)
(***************************************************************************)
\* BufRead::read_until(b'\n') at offset pos: the number of bytes read, the
\* newline included; 0 at or past the end of the file
read_until(f, pos) ==
    LET stop == RunNotIn(f, {NL}, pos)
    IN  IF pos >= Len(f) THEN 0
        ELSE IF stop < Len(f) THEN stop + 1 - pos
        ELSE stop - pos

\* the value of len that means "to the end of the file"
usize_MAX == 2147483647

\* an example of a plausible slip: the quotient is rounded down
Step_floor(f, from, len, num_threads) ==
    LET num_chars == IF len = usize_MAX THEN Len(f) - from ELSE len
    IN  num_chars \div num_threads

\* from_file: step = ceil(num_chars / num_threads)
Step(f, from, len, num_threads) ==
    LET num_chars == IF len = usize_MAX THEN Len(f) - from ELSE len
    IN  (num_chars + num_threads - 1) \div num_threads

\* from_file: the work array after the planning loop; every unit but the
\* last is extended by the line found at the next unit's start, plus one
PlanWork(f, from, len, num_threads) ==
    LET step == Step(f, from, len, num_threads)
    IN  [i \in 1..num_threads |->
            [from |-> from + (i - 1) * step,
             len |-> IF i < num_threads
                     THEN step + read_until(f, from + i * step) + 1
                     ELSE step]]

ChunkOk(cols, src, handed) ==
    [status |-> "ok", why |-> "", cols |-> cols, src |-> src,
     handed |-> handed]
ChunkPanic(why, cols, src, handed) ==
    [status |-> "panic", why |-> why, cols |-> cols, src |-> src,
     handed |-> handed]

\* an example of a plausible slip: the line that reaches len is still parsed
chunk_done_after(line_len, so_far, len) == line_len = 0 \/ so_far > len

\* lines 261-263: the loop ends at the end of the file, or with the line
\* that brings so_far to len
chunk_done(line_len, so_far, len) == line_len = 0 \/ so_far >= len

\* the loop of read_chunk with the reader at offset pos.  src is the offset
\* of the line of each row pushed, handed the slices [s, e) given to
\* parse_line_with_schema (neither is kept by the program).
RECURSIVE read_chunk_loop(_, _, _, _, _, _, _, _)
read_chunk_loop(schema, f, len, pos, so_far, cols, src, handed) ==
    LET line_len == read_until(f, pos)
        so_far2 == so_far + line_len
        buffer == SubSeq(f, pos + 1, pos + line_len)
        p == parse_line_with_schema(buffer, schema)
        handed2 == Append(handed, [s |-> pos, e |-> pos + line_len])
    IN  IF chunk_done(line_len, so_far2, len) THEN ChunkOk(cols, src, handed)
        ELSE IF p.kind = "None"
             THEN read_chunk_loop(schema, f, len, pos + line_len, so_far2,
                                  cols, src, handed2)
        ELSE IF p.kind = "Panic"
             THEN ChunkPanic("unwrap", cols, src, handed2)
        ELSE IF PushPanics(p.row, cols)
             THEN ChunkPanic("Parser Failed", cols, src, handed2)
        ELSE read_chunk_loop(schema, f, len, pos + line_len, so_far2,
                             PushRow(p.row, cols), Append(src, pos), handed2)

\* mutant: the first line is never thrown away
SkipFirstLine_never(f, from) == 0

\* an example of a plausible slip: a chunk that starts on a line start
\* keeps that line
SkipFirstLine_unless_line_start(f, from) ==
    IF from # 0 /\ ~(from <= Len(f) /\ f[from] = NL) THEN read_until(f, from)
    ELSE 0

\* the first line is thrown away unless the chunk starts at offset 0
SkipFirstLine(f, from) == IF from # 0 THEN read_until(f, from) ELSE 0

read_chunk(schema, f, from, len) ==
    LET l1_len == SkipFirstLine(f, from)
    IN  read_chunk_loop(schema, f, len, from + l1_len, l1_len,
                        init_columnar(schema), <<>>, <<>>)


(***************************************************************************)
(* SorTerator.  buf_reader is BufReader::split(b'\n'): the reader offset   *)
(* sor_pos; each item is a line without its newline.                       *)
(***************************************************************************)
SorSome(cols, pos, handed) ==
    [kind |-> "Some", why |-> "", cols |-> cols, pos |-> pos,
     handed |-> handed]
SorNone(pos, handed) ==
    [kind |-> "None", why |-> "", cols |-> <<>>, pos |-> pos,
     handed |-> handed]
SorPanic(why, pos, handed) ==
    [kind |-> "Panic", why |-> why, cols |-> <<>>, pos |-> pos,
     handed |-> handed]

\* Split::next at offset pos: the item, without the delimiter
SplitItem(f, pos) ==
    LET n == read_until(f, pos)
    IN  IF n > 0 /\ f[pos + n] = NL THEN SubSeq(f, pos + 1, pos + n - 1)
        ELSE SubSeq(f, pos + 1, pos + n)

\* an example of a plausible slip: the chunk in hand always counts as one
\* that holds a row
FirstColumnLen_one(cols) == 1

\* an example of a plausible slip: the chunk in hand at the end of the file
\* counts as empty
FirstColumnLen_zero(cols) == 0

\* parsed_data.get(0).unwrap_or(&self.empty_col).len()
FirstColumnLen(cols) == IF Len(cols) > 0 THEN Len(cols[1].cells) ELSE 0

\* the body of SorTerator::next with the reader at offset pos
RECURSIVE sor_next_loop(_, _, _, _, _, _)
sor_next_loop(schema, f, chunk_size, pos, cols, handed) ==
    LET n == read_until(f, pos)
        p == parse_line_with_schema(SplitItem(f, pos), schema)
        handed2 == Append(handed, [s |-> pos, e |-> pos + n])
        pushed == PushRow(p.row, cols)
    IN  IF n = 0
        THEN (IF FirstColumnLen(cols) > 0 THEN SorSome(cols, pos, handed)
              ELSE SorNone(pos, handed))
        ELSE IF p.kind = "None"
             THEN sor_next_loop(schema, f, chunk_size, pos + n, cols, handed2)
        ELSE IF p.kind = "Panic" THEN SorPanic("unwrap", pos + n, handed2)
        ELSE IF PushPanics(p.row, cols)
             THEN SorPanic("Parser Failed", pos + n, handed2)
        ELSE IF Len(pushed) > 0 /\ Len(pushed[1].cells) = chunk_size
             THEN SorSome(pushed, pos + n, handed2)
        ELSE sor_next_loop(schema, f, chunk_size, pos + n, pushed, handed2)

sor_next(schema, f, chunk_size, pos) ==
    sor_next_loop(schema, f, chunk_size, pos, init_columnar(schema), <<>>)

(***************************************************************************)
(* Schema inference (src/src/schema.rs).                                   *)
(***************************************************************************)
\* the number of lines infer_schema reads at most
SampleLines == 500

\* BufRead::lines() at offset pos: the line without its "\n" or "\r\n"
LinesItem(f, pos) ==
    LET item == SplitItem(f, pos)
    IN  IF read_until(f, pos) > Len(item) /\ item # <<>>
           /\ item[Len(item)] = "\r"
        THEN Take(item, Len(item) - 1)
        ELSE item

\* an example of a plausible slip: the current type is not looked at
get_dominant_data_type_of_other(cur_dominant_type, other_type) ==
    IF other_type.t = "Null" THEN "Bool" ELSE other_type.t

\* an example of a plausible slip: the Int arms come before the Float arms
get_dominant_data_type_int_first(cur_dominant_type, other_type) ==
    IF other_type.t = "String" THEN "String"
    ELSE IF cur_dominant_type = "String" THEN "String"
    ELSE IF other_type.t = "Int" THEN "Int"
    ELSE IF cur_dominant_type = "Int" THEN "Int"
    ELSE IF other_type.t = "Float" THEN "Float"
    ELSE IF cur_dominant_type = "Float" THEN "Float"
    ELSE "Bool"

get_dominant_data_type(cur_dominant_type, other_type) ==
    IF other_type.t = "String" THEN "String"
    ELSE IF cur_dominant_type = "String" THEN "String"
    ELSE IF other_type.t = "Float" THEN "Float"
    ELSE IF cur_dominant_type = "Float" THEN "Float"
    ELSE IF other_type.t = "Int" THEN "Int"
    ELSE IF cur_dominant_type = "Int" THEN "Int"
    ELSE "Bool"

\* lines 89-94: the type of column c after the retained rows lo..hi, one
\* after the other, from data_type; String ends the loop.  The range is
\* halved so that the evaluation does not nest one level for each row.
RECURSIVE dominant_loop(_, _, _, _, _)
dominant_rest(parsed_lines, c, lo, hi, left) ==
    IF left = "String" THEN left
    ELSE dominant_loop(parsed_lines, c, lo, hi, left)

dominant_loop(parsed_lines, c, lo, hi, data_type) ==
    IF lo > hi \/ data_type = "String" THEN data_type
    ELSE IF lo = hi
         THEN get_dominant_data_type(data_type, parsed_lines[lo][c])
    ELSE dominant_rest(parsed_lines, c, ((lo + hi) \div 2) + 1, hi,
                       dominant_loop(parsed_lines, c, lo, (lo + hi) \div 2,
                                     data_type))

\* the width before any line is read, one too many
curr_length_init_one == 0 + 1

\* line 64: the width before any line is read
curr_length_init == 0

\* the test that ends the sampling is never true
sample_done_never(i) == FALSE

\* lines 67-69: the sampling ends at the line of index SampleLines
sample_done(i) == i = SampleLines

\* the comparison taken the wrong way round
cmp_reversed(a, b) ==
    IF a < b THEN "Greater" ELSE IF a = b THEN "Equal" ELSE "Less"

\* line 75: parsed.len().cmp(&curr_length)
cmp(a, b) == IF a > b THEN "Greater" ELSE IF a = b THEN "Equal" ELSE "Less"

\* The state of the loop of infer_schema_from_reader: the reader at offset
\* pos, i lines taken from the iterator, and how the loop stands ("loop",
\* "end" after the last line or the break, "panic").
InferState(at, pos, i, curr_length, parsed_lines) ==
    [at |-> at, pos |-> pos, i |-> i, curr_length |-> curr_length,
     parsed_lines |-> parsed_lines]

\* lines 70-83: the line of n bytes parsed as parsed
infer_take(st, n, parsed) ==
    IF parsed.kind = "Panic"
    THEN InferState("panic", st.pos + n, st.i + 1, st.curr_length,
                    st.parsed_lines)
    ELSE IF parsed.kind = "None"
            \/ cmp(Len(parsed.row), st.curr_length) = "Less"
         THEN InferState("loop", st.pos + n, st.i + 1, st.curr_length,
                         st.parsed_lines)
    ELSE IF cmp(Len(parsed.row), st.curr_length) = "Greater"
         THEN InferState("loop", st.pos + n, st.i + 1, Len(parsed.row),
                         <<parsed.row>>)
    ELSE InferState("loop", st.pos + n, st.i + 1, st.curr_length,
                    Append(st.parsed_lines, parsed.row))

\* lines 66-84: one turn of the loop over reader.lines().enumerate()
infer_step(f, st) ==
    IF read_until(f, st.pos) = 0 \/ sample_done(st.i)
    THEN InferState("end", st.pos, st.i, st.curr_length, st.parsed_lines)
    ELSE infer_take(st, read_until(f, st.pos),
                    parse_line(LinesItem(f, st.pos)))

\* the turns lo..hi of the loop, one after the other, from the state st;
\* the range is halved so that the evaluation does not nest one level for
\* each line of the file
RECURSIVE infer_loop(_, _, _, _)
infer_rest(f, left, lo, hi) ==
    IF left.at # "loop" THEN left ELSE infer_loop(f, left, lo, hi)

infer_loop(f, st, lo, hi) ==
    IF lo = hi THEN infer_step(f, st)
    ELSE infer_rest(f, infer_loop(f, st, lo, (lo + hi) \div 2),
                    ((lo + hi) \div 2) + 1, hi)

\* what infer_schema returns, and with it what the program does not keep:
\* the number of lines read, the offset the reader stopped at and the rows
\* retained
InferOk(schema, sampled, pos, rows) ==
    [status |-> "ok", schema |-> schema, sampled |-> sampled, pos |-> pos,
     rows |-> rows]
InferPanic(sampled, pos) ==
    [status |-> "panic", schema |-> <<>>, sampled |-> sampled, pos |-> pos,
     rows |-> <<>>]

\* lines 86-97: one type for each of curr_length columns
schema_of(curr_length, parsed_lines) ==
    [c \in 1..curr_length |-> dominant_loop(parsed_lines, c, 1, Len(parsed_lines), "Bool")]

\* a file of Len(f) bytes has at most Len(f) lines, so the loop has ended
\* after Len(f) + 1 turns
infer_return(st) ==
    IF st.at = "panic" THEN InferPanic(st.i, st.pos)
    ELSE InferOk(schema_of(st.curr_length, st.parsed_lines), st.i, st.pos,
                 st.parsed_lines)

infer_schema_from_reader(f) ==
    infer_return(infer_loop(f, InferState("loop", 0, 0, curr_length_init,
                                          <<>>),
                            0, Len(f)))

(***************************************************************************)
(* The inputs the specifications draw from.                                *)
(***************************************************************************)
MaxLines == 2
MaxThreads == 3
MaxChunk == 2
MaxRows == 2
MaxFields == 3
MaxCols == 2
MaxPayloads == 2
MaxInferLines == 2
MaxSorLines == 3
MaxFoldLines == 3

\* the lines joined into a file; the last has a newline only if trailing
RECURSIVE FileOf(_, _)
FileOf(lines, trailing) ==
    IF lines = <<>> THEN <<>>
    ELSE IF Len(lines) = 1
         THEN Head(lines) \o (IF trailing THEN <<NL>> ELSE <<>>)
    ELSE Head(lines) \o <<NL>> \o FileOf(Tail(lines), trailing)

FilesOf(kinds, max) ==
    {FileOf(ls, t) : ls \in UNION {[1..n -> kinds] : n \in 0..max},
                     t \in BOOLEAN}

\* short lines: blank, a Bool field, an unquoted word
SmallLines == {<<>>, <<"<", "1", ">">>, <<"<", "a", ">">>}
SmallSchemas == {<<"Bool", "String">>}

\* lines of every shape parse_line_with_schema tells apart
RichLines ==
    { <<>>,
      <<"<", "1", ">">>,
      <<"<", "1", ">", "<", "0", ">", "<", "c", ">">>,
      <<"<", "a", ">", " ", "<", "1", ".", "5", ">", "<", "x", ">">>,
      <<"<", " ", ">", "<", "-", "7", ">">>,
      <<"<", "1", "2", ">", "<", "b", " ", "c", ">">>,
      <<"<", "0", ">", "<", "9", "2", "2", "3", "3", "7", "2", "0", "3", "6",
        "8", "5", "4", "7", "7", "5", "8", "0", "8", ">">> }
RichSchemas ==
    {<<"String", "Float">>, <<"Bool", "Int">>, <<"Int", "Bool", "String">>}

\* fields for parse_line_with_schema: missing, Bool, Int, Float, a word, a
\* quoted string, and an unquoted string with a space (not a field)
FieldKinds ==
    { <<"<", ">">>,
      <<"<", "1", ">">>,
      <<"<", " ", "-", "1", "2", " ", ">">>,
      <<"<", "1", ".", "5", ">">>,
      <<"<", "a", ">">>,
      <<"<", "\"", "b", " ", "c", "\"", ">">>,
      <<"<", "b", " ", "c", ">">> }
\* fields for the two line parsers: missing (empty and blank), the payloads
\* 1, 0, 12, +1, 1.2 and hello, the three invalid fields of the crate
\* documentation, and the digit runs at and around the ends of the i64 range
Field_empty == <<"<", ">">>
Field_blank == <<"<", " ", ">">>
Field_1 == <<"<", "1", ">">>
Field_0 == <<"<", "0", ">">>
Field_12 == <<"<", "1", "2", ">">>
Field_plus1 == <<"<", "+", "1", ">">>
Field_1_2 == <<"<", "1", ".", "2", ">">>
Field_hello == <<"<", "h", "e", "l", "l", "o", ">">>
Field_1_dot_space_0 == <<"<", "1", ".", " ", "0", ">">>
Field_bye_world ==
    <<"<", "b", "y", "e", " ", "w", "o", "r", "l", "d", ">">>
Field_plus_space_1 == <<"<", "+", " ", "1", ">">>
Field_i64_max == <<"<">> \o I64MaxDigits \o <<">">>
Field_i64_min ==
    <<"<", "-">> \o Take(I64MaxDigits, 18) \o <<"8">> \o <<">">>
Field_i64_over == <<"<">> \o Take(I64MaxDigits, 18) \o <<"8">> \o <<">">>
Field_i64_long == <<"<">> \o I64MaxDigits \o <<"0">> \o <<">">>

ValidFields ==
    {Field_empty, Field_blank, Field_1, Field_0, Field_12, Field_plus1,
     Field_1_2, Field_hello, Field_i64_max}
InvalidFields == {Field_1_dot_space_0, Field_bye_world, Field_plus_space_1}
RangeFields == {Field_i64_min, Field_i64_over, Field_i64_long}
PayloadFields == ValidFields \cup InvalidFields \cup RangeFields

\* bytes after the last field that no field or whitespace accounts for
Junk == <<"x">>

DataTypes == {"String", "Float", "Int", "Bool"}

\* the fields in order, pad before, between and after them
RECURSIVE LineOf(_, _)
LineOf(fs, pad) ==
    IF fs = <<>> THEN pad ELSE pad \o Head(fs) \o LineOf(Tail(fs), pad)

\* lines for infer_schema: empty, one Bool, an Int and a Bool, a Float and
\* a missing field, a String and an Int, three fields the last of them
\* invalid, and a digit run above i64::MAX
InferLines ==
    { <<>>,
      Field_1,
      Field_12 \o Field_1,
      Field_1_2 \o Field_empty,
      Field_hello \o Field_12,
      Field_1 \o Field_1 \o Field_plus_space_1,
      Field_i64_over }

\* what follows the first lines of a long file: nothing, a line as those
\* before it, a line of a more dominant type, a wider line, and both
LongTails ==
    { <<>>,
      Field_1,
      Field_hello \o <<NL>>,
      Field_12 \o Field_1,
      Field_12 \o Field_1 \o <<NL>> \o Field_hello \o <<NL>> }

\* lines of the files that go through infer_schema and then from_file
SorerLines == {Field_1, Field_hello \o Field_12}

\* lines for SorTerator: empty, blank, a Bool or an Int, a word, and a digit
\* run above i64::MAX
SorLines == {<<>>, <<" ">>, Field_1, <<"<", "a", ">">>, Field_i64_over}
SorSchemas == {<<"Bool", "String">>, <<"Int">>}

\* lines of one field for the fold over a column: missing, Bool, Int, Float
\* and String
FoldLines == {Field_empty, Field_1, Field_12, Field_1_2, Field_hello}

\* n lines <1>, each with its newline
Prefix(n) == [k \in 1..(4 * n) |-> (Field_1 \o <<NL>>)[((k - 1) % 4) + 1]]

VARIABLES
    mode,         \* "from_file" or "SorTerator": the reader in use
    file,         \* the bytes of the file
    schema,       \* schema: Vec<DataType>
    from,         \* from_file's from
    len,          \* from_file's len
    num_threads,  \* from_file's num_threads
    chunk_size,   \* SorTerator's chunk_size
    pc,           \* where the calling thread is
    panic,        \* the panic that ended the calling thread, or ""
    work,         \* from_file's work array
    threads,      \* the spawned workers: [status, out]
    joined,       \* how many workers the merge loop has joined
    parsed_data,  \* from_file's result under construction
    row_src,      \* for each row of parsed_data, the offset of its line
    finished,     \* the workers that have ended, in the order they ended
    sor_pos,      \* the offset of SorTerator's reader
    sor_ret,      \* what the last SorTerator::next returned
    sor_chunks,   \* the chunks SorTerator::next has returned, in order
    fields,       \* the fields the line given to the line parser is made of
    line,         \* the slice given to parse_line_with_schema
    line_ret,     \* what parse_line_with_schema or parse_line returned
    infer_ret     \* what infer_schema returned, with the lines it read

inputs == <<mode, file, schema, from, len, num_threads, chunk_size>>
ffvars == <<work, threads, joined, parsed_data, row_src, finished>>
sorvars == <<sor_pos, sor_ret, sor_chunks>>
linevars == <<fields, line, line_ret>>
vars == <<inputs, pc, panic, ffvars, sorvars, linevars, infer_ret>>

NoOut == ChunkOk(<<>>, <<>>, <<>>)
NoInfer == InferOk(<<>>, 0, 0, <<>>)
NoRet == [kind |-> "-", why |-> "", cols |-> <<>>, pos |-> 0, handed |-> <<>>]

Start ==
    /\ pc = IF mode = "from_file" THEN "plan"
            ELSE IF mode = "SorTerator" THEN "iter"
            ELSE IF mode \in {"infer_schema", "sorer"} THEN "infer"
            ELSE "call"
    /\ panic = ""
    /\ work = <<>>
    /\ threads = <<>>
    /\ joined = 0
    /\ parsed_data = <<>>
    /\ row_src = <<>>
    /\ finished = <<>>
    /\ sor_pos = 0
    /\ sor_ret = NoRet
    /\ sor_chunks = <<>>
    /\ line_ret = LineNone
    /\ infer_ret = NoInfer

\* windows at every byte offset over the short files
Init ==
    /\ mode \in {"from_file", "SorTerator"}
    /\ file \in FilesOf(SmallLines, MaxLines)
    /\ schema \in SmallSchemas
    /\ IF mode = "from_file"
       THEN /\ num_threads \in 1..MaxThreads
            /\ from \in 0..Len(file)
            /\ len \in (0..(Len(file) - from + 1)) \cup {usize_MAX}
            /\ chunk_size = 0
       ELSE /\ num_threads = 0 /\ from = 0 /\ len = 0
            /\ chunk_size \in 1..MaxChunk
    /\ fields = <<>> /\ line = <<>>
    /\ Start

\* whole-file reads over the lines of every shape
InitRows ==
    /\ mode \in {"from_file", "SorTerator"}
    /\ file \in FilesOf(RichLines, MaxRows)
    /\ schema \in RichSchemas
    /\ IF mode = "from_file"
       THEN /\ num_threads \in 1..MaxThreads
            /\ from = 0
            /\ len \in {Len(file) + 1, usize_MAX}
            /\ chunk_size = 0
       ELSE /\ num_threads = 0 /\ from = 0 /\ len = 0
            /\ chunk_size \in 1..MaxChunk
    /\ fields = <<>> /\ line = <<>>
    /\ Start

\* one line, of up to MaxFields fields, and a schema of up to MaxCols columns
InitLine ==
    /\ mode = "parse_line_with_schema"
    /\ fields \in UNION {[1..n -> FieldKinds] : n \in 0..MaxFields}
    /\ line \in {LineOf(fields, pad) : pad \in {<<>>, <<" ">>}}
    /\ schema \in UNION {[1..k -> DataTypes] : k \in 0..MaxCols}
    /\ file = <<>> /\ num_threads = 0 /\ from = 0 /\ len = 0
    /\ chunk_size = 0
    /\ Start

\* one line of up to MaxPayloads fields, with or without padding and
\* trailing junk, for parse_line or, with a schema, parse_line_with_schema
InitParse ==
    /\ mode \in {"parse_line", "parse_line_with_schema"}
    /\ fields \in UNION {[1..n -> PayloadFields] : n \in 0..MaxPayloads}
    /\ line \in {LineOf(fields, pad) \o j :
                     pad \in {<<>>, <<" ">>}, j \in {<<>>, Junk}}
    /\ IF mode = "parse_line" THEN schema = <<>>
       ELSE schema \in UNION {[1..k -> DataTypes] : k \in 1..MaxCols}
    /\ file = <<>> /\ num_threads = 0 /\ from = 0 /\ len = 0
    /\ chunk_size = 0
    /\ Start

\* infer_schema alone, on a file of up to MaxInferLines lines, or on a long
\* file: SampleLines lines <1>, or one less, and one of LongTails; or
\* infer_schema and then from_file with the schema, as examples/sorer.rs
\* does, on a file of up to MaxInferLines lines
InitInfer ==
    /\ mode \in {"infer_schema", "sorer"}
    /\ IF mode = "infer_schema"
       THEN /\ file \in FilesOf(InferLines, MaxInferLines)
                   \cup {Prefix(n) \o tail :
                             n \in {SampleLines - 1, SampleLines},
                             tail \in LongTails}
            /\ num_threads = 0 /\ from = 0 /\ len = 0
       ELSE /\ file \in FilesOf(SorerLines, MaxInferLines)
            /\ num_threads \in 1..MaxThreads
            /\ from \in {0, Min(1, Len(file))}
            /\ len = usize_MAX
    /\ schema = <<>>
    /\ chunk_size = 0
    /\ fields = <<>> /\ line = <<>>
    /\ Start

\* a SorTerator over a file of up to MaxSorLines lines, next called until
\* it returns None and once more
InitSor ==
    /\ mode = "SorTerator"
    /\ file \in FilesOf(SorLines, MaxSorLines)
    /\ schema \in SorSchemas
    /\ chunk_size \in 1..MaxChunk
    /\ num_threads = 0 /\ from = 0 /\ len = 0
    /\ fields = <<>> /\ line = <<>>
    /\ Start

\* infer_schema on a file of up to MaxFoldLines lines of one field each, in
\* every order
InitFold ==
    /\ mode = "infer_schema"
    /\ file \in FilesOf(FoldLines, MaxFoldLines)
    /\ num_threads = 0 /\ from = 0 /\ len = 0
    /\ schema = <<>>
    /\ chunk_size = 0
    /\ fields = <<>> /\ line = <<>>
    /\ Start

\* from_file, lines 120-161: the work array
Plan ==
    /\ pc = "plan"
    /\ work' = PlanWork(file, from, len, num_threads)
    /\ pc' = "spawn"
    /\ UNCHANGED <<inputs, panic, threads, joined, parsed_data, row_src,
                   finished, sorvars, linevars, infer_ret>>

\* from_file, lines 165-177: one thread::spawn; after the last one the
\* result is initialized
Spawn ==
    /\ pc = "spawn"
    /\ threads' = Append(threads, [status |-> "running", out |-> NoOut])
    /\ IF Len(threads) + 1 = num_threads
       THEN pc' = "join" /\ parsed_data' = init_columnar(schema)
       ELSE pc' = "spawn" /\ parsed_data' = parsed_data
    /\ UNCHANGED <<inputs, panic, work, joined, row_src, finished, sorvars,
                   linevars, infer_ret>>

\* what a worker leaves for join(): its closure's value, or its panic
WorkerRun(w) ==
    LET out == read_chunk(schema, file, work[w].from, work[w].len)
    IN  [status |-> IF out.status = "ok" THEN "finished" ELSE "panicked",
         out |-> out]

\* a spawned worker runs read_chunk to its end
Worker(w) ==
    /\ w \in 1..Len(threads)
    /\ threads[w].status = "running"
    /\ threads' = [threads EXCEPT ![w] = WorkerRun(w)]
    /\ finished' = Append(finished, w)
    /\ UNCHANGED <<inputs, pc, panic, work, joined, parsed_data, row_src,
                   sorvars, linevars, infer_ret>>

\* mutant: the merge loop takes the workers in the order they end
NextToJoin_as_finished ==
    IF joined < Len(finished) THEN finished[joined + 1]
    ELSE CHOOSE w \in 1..Len(threads) : threads[w].status = "running"

\* the worker the merge loop joins next
NextToJoin == joined + 1

\* an example of a plausible slip: the test of the worker's state is
\* inverted, so a worker that has ended is waited for
Join_while_running ==
    /\ pc = "join"
    /\ threads[NextToJoin].status = "running"
    /\ LET t == threads[NextToJoin]
       IN  /\ parsed_data' = MergeCols(parsed_data, t.out.cols)
           /\ row_src' = row_src \o t.out.src
           /\ joined' = joined + 1
           /\ pc' = IF joined + 1 = num_threads THEN "done" ELSE "join"
           /\ panic' = panic
    /\ UNCHANGED <<inputs, work, threads, finished, sorvars, linevars,
                   infer_ret>>

\* from_file, lines 180-192: t.join().unwrap() and the append of its columns
Join ==
    /\ pc = "join"
    /\ threads[NextToJoin].status # "running"
    /\ LET t == threads[NextToJoin]
       IN  IF t.status = "panicked"
           THEN /\ pc' = "panicked" /\ panic' = "join unwrap"
                /\ UNCHANGED <<joined, parsed_data, row_src>>
           ELSE IF MergePanics(parsed_data, t.out.cols)
           THEN /\ pc' = "panicked"
                /\ panic' = "Unexpected result from thread"
                /\ UNCHANGED <<joined, parsed_data, row_src>>
           ELSE /\ parsed_data' = MergeCols(parsed_data, t.out.cols)
                /\ row_src' = row_src \o t.out.src
                /\ joined' = joined + 1
                /\ pc' = IF joined + 1 = num_threads THEN "done" ELSE "join"
                /\ panic' = panic
    /\ UNCHANGED <<inputs, work, threads, finished, sorvars, linevars,
                   infer_ret>>

\* one call of SorTerator::next
SorNext ==
    /\ pc = "iter"
    /\ LET r == sor_next(schema, file, chunk_size, sor_pos)
       IN  /\ sor_ret' = r
           /\ sor_pos' = r.pos
           /\ sor_chunks' = IF r.kind = "Some" THEN Append(sor_chunks, r.cols)
                            ELSE sor_chunks
           /\ IF r.kind = "Panic"
              THEN pc' = "panicked" /\ panic' = r.why
              ELSE pc' = pc /\ panic' = panic
    /\ UNCHANGED <<inputs, ffvars, linevars, infer_ret>>

\* one call of parse_line_with_schema
ParseLine ==
    /\ mode = "parse_line_with_schema"
    /\ pc = "call"
    /\ line_ret' = parse_line_with_schema(line, schema)
    /\ pc' = IF line_ret'.kind = "Panic" THEN "panicked" ELSE "returned"
    /\ panic' = IF line_ret'.kind = "Panic" THEN "unwrap" ELSE panic
    /\ UNCHANGED <<inputs, ffvars, sorvars, fields, line, infer_ret>>

\* one call of parse_line
ParseLineAny ==
    /\ mode = "parse_line"
    /\ pc = "call"
    /\ line_ret' = parse_line(line)
    /\ pc' = IF line_ret'.kind = "Panic" THEN "panicked" ELSE "returned"
    /\ panic' = IF line_ret'.kind = "Panic" THEN "unwrap" ELSE panic
    /\ UNCHANGED <<inputs, ffvars, sorvars, fields, line, infer_ret>>

\* infer_schema: the schema of the file, whatever from and len are
InferSchema ==
    /\ pc = "infer"
    /\ LET r == infer_schema_from_reader(file)
       IN  /\ infer_ret' = r
           /\ IF r.status = "panic"
              THEN /\ pc' = "panicked" /\ panic' = "unwrap"
                   /\ schema' = schema
              ELSE /\ pc' = IF mode = "sorer" THEN "plan" ELSE "inferred"
                   /\ panic' = panic
                   /\ schema' = r.schema
    /\ UNCHANGED <<mode, file, from, len, num_threads, chunk_size, ffvars,
                   sorvars, linevars>>

Next ==
    \/ Plan
    \/ Spawn
    \/ \E w \in 1..MaxThreads : Worker(w)
    \/ Join
    \/ SorNext

Spec == Init /\ [][Next]_vars

SpecRows == InitRows /\ [][Next]_vars

\* worker w is spawned and has not ended
Running(w) == w \in 1..Len(threads) /\ threads[w].status = "running"

\* WF_vars(Worker(w)) written out: Worker(w) can take a step that changes
\* vars exactly when worker w is running, so a thread that stays running is
\* scheduled again and again
WorkerFair(w) == []<>(~Running(w)) \/ []<><<Worker(w)>>_vars

\* a blank line and a line with a field: what read_chunk reads next does
\* not depend on what a line parses to
FairLines == {<<>>, <<"<", "1", ">">>}

\* the calls of Init over the files of blank lines and lines with a field
InitFair ==
    /\ Init
    /\ file \in FilesOf(FairLines, MaxLines)

\* the calling thread goes on while it can, and every spawned thread is
\* scheduled until it ends
SpecFair ==
    /\ InitFair
    /\ [][Next]_vars
    /\ WF_vars(Plan)
    /\ WF_vars(Spawn)
    /\ WF_vars(Join)
    /\ \A w \in 1..MaxThreads : WorkerFair(w)

NextLine == ParseLine

SpecLine == InitLine /\ [][NextLine]_vars

NextParse == ParseLine \/ ParseLineAny

SpecParse == InitParse /\ [][NextParse]_vars

NextSor == SorNext

SpecSor == InitSor /\ [][NextSor]_vars

NextInfer ==
    \/ InferSchema
    \/ Plan
    \/ Spawn
    \/ \E w \in 1..MaxThreads : Worker(w)
    \/ Join

SpecInfer == InitInfer /\ [][NextInfer]_vars

NextFold == InferSchema

SpecFold == InitFold /\ [][NextFold]_vars


(***************************************************************************)
(* The properties.                                                         *)
(***************************************************************************)
\* the offsets at which a line of f starts
LineStarts(f) == {p \in 0..(Len(f) - 1) : p = 0 \/ f[p] = NL}

\* the offset just past the line of f that starts at s
LineEnd(f, s) == s + read_until(f, s)

\* the line that starts at s ends in a newline
Terminated(f, s) == f[LineEnd(f, s)] = NL

\* the line of f at offset s as read_chunk reads it, its newline included
LineAt(f, s) == SubSeq(f, s + 1, LineEnd(f, s))

\* every (worker, index) of a slice given to parse_line_with_schema
HandedSlots ==
    UNION {{w} \X DOMAIN threads[w].out.handed : w \in 1..Len(threads)}

\* how many times the line at offset s was given to parse_line_with_schema
HandedCount(s) ==
    Cardinality({x \in HandedSlots : threads[x[1]].out.handed[x[2]].s = s})

\* the line at s lies in the window: it starts at or after from, and its
\* newline is before from + len
InWindow(s) ==
    /\ s >= from
    /\ Terminated(file, s)
    /\ len = usize_MAX \/ LineEnd(file, s) - 1 - from < len

\* from_file run one unit after the other: the merge of the units from i on
RECURSIVE SeqMerge(_, _, _, _, _)
SeqMerge(sch, f, w, i, acc) ==
    LET out == read_chunk(sch, f, w[i].from, w[i].len)
    IN  IF i > Len(w) THEN [status |-> "ok", cols |-> acc]
        ELSE IF out.status = "panic" \/ MergePanics(acc, out.cols)
             THEN [status |-> "panic", cols |-> <<>>]
        ELSE SeqMerge(sch, f, w, i + 1, MergeCols(acc, out.cols))

FromFileSeq(sch, f, fr, ln, n) ==
    SeqMerge(sch, f, PlanWork(f, fr, ln, n), 1, init_columnar(sch))

NumRows(cols) == IF cols = <<>> THEN 0 ELSE Len(cols[1].cells)

\* C1: when from_file has returned, every newline-terminated line of the
\* file that lies in the window [from, from + len) was given to
\* parse_line_with_schema exactly once over all workers.
C1_EveryLineExactlyOnce ==
    (mode = "from_file" /\ pc = "done") =>
        \A s \in LineStarts(file) : InWindow(s) => HandedCount(s) = 1

\* C2: reading the whole file (from = 0, len = usize::MAX), from_file
\* returns with any number of workers the Table it returns with one.
C2_SameTableForEveryWorkerCount ==
    (mode = "from_file" /\ pc = "done" /\ from = 0 /\ len = usize_MAX) =>
        parsed_data = FromFileSeq(schema, file, 0, usize_MAX, 1).cols

\* C3: the rows of the returned Table are in the order of their lines in
\* the file: row i holds the cells of the line at row_src[i] in every
\* column, and a row of an earlier line has the smaller index.
C3_RowsInSourceOrder ==
    (mode = "from_file" /\ pc = "done") =>
        /\ \A c \in DOMAIN parsed_data :
               Len(parsed_data[c].cells) = Len(row_src)
        /\ \A i \in DOMAIN row_src : \A c \in DOMAIN parsed_data :
               parsed_data[c].cells[i]
                   = parse_line_with_schema(LineAt(file, row_src[i]),
                                            schema).row[c]
        /\ \A i, j \in DOMAIN row_src :
               row_src[i] < row_src[j] => i < j

\* C3 witness: a two-row Table whose rows come from two workers, the later
\* worker having ended first
C3_Witness ==
    /\ mode = "from_file" /\ pc = "done"
    /\ Len(finished) >= 2 /\ finished[1] = 2 /\ finished[2] = 1
    /\ threads[1].out.src # <<>> /\ threads[2].out.src # <<>>
    /\ Len(row_src) = 2 /\ row_src[1] < row_src[2]

\* C4: every slice a worker gives to parse_line_with_schema starts at
\* offset 0 or just after a newline, is not empty, and ends with a newline
\* or at the end of the file.
C4_NoPartialLine ==
    \A x \in HandedSlots :
        LET h == threads[x[1]].out.handed[x[2]]
        IN  /\ h.s = 0 \/ file[h.s] = NL
            /\ h.s < h.e
            /\ h.e = Len(file) \/ file[h.e] = NL

\* C4 witness: a worker whose unit starts inside a line has parsed a line
C4_Witness ==
    \E w \in 1..Len(threads) :
        /\ work[w].from > 0
        /\ work[w].from < Len(file)
        /\ file[work[w].from] # NL
        /\ threads[w].out.handed # <<>>

\* C7: whatever the order in which the workers run and end, from_file ends
\* as the one-unit-after-the-other run does: it returns that Table, or it
\* panics when that run panics.
C7_Deterministic ==
    mode = "from_file" =>
        /\ pc = "done" =>
               /\ FromFileSeq(schema, file, from, len, num_threads).status
                      = "ok"
               /\ parsed_data
                      = FromFileSeq(schema, file, from, len, num_threads).cols
        /\ pc = "panicked" =>
               FromFileSeq(schema, file, from, len, num_threads).status
                   = "panic"

\* C7 witness: from_file has returned rows of three workers that ended in
\* the order 3, 1, 2
C7_Witness ==
    /\ mode = "from_file" /\ pc = "done"
    /\ finished = <<3, 1, 2>>
    /\ NumRows(parsed_data) >= 2
    /\ \E w1, w2 \in 1..3 :
           w1 # w2 /\ threads[w1].out.src # <<>> /\ threads[w2].out.src # <<>>


\* the slice read_chunk gives the parser for a handed line, and the item
\* SorTerator gives it
ChunkSlice(h) == SubSeq(file, h.s + 1, h.e)
SorSlice(h) == SplitItem(file, h.s)

\* the rows of the accepted lines among the slices sl, in order
RECURSIVE AcceptedRows(_)
AcceptedRows(sl) ==
    IF sl = <<>> THEN <<>>
    ELSE LET p == parse_line_with_schema(Head(sl), schema)
         IN  (IF p.kind = "Some" THEN <<p.row>> ELSE <<>>)
                 \o AcceptedRows(Tail(sl))

\* the columns that hold exactly the rows rs
RECURSIVE ColsOfRows(_)
ColsOfRows(rs) ==
    IF rs = <<>> THEN init_columnar(schema)
    ELSE PushRow(rs[Len(rs)], ColsOfRows(Take(rs, Len(rs) - 1)))

EqualLength(cols) ==
    \A a, b \in DOMAIN cols : Len(cols[a].cells) = Len(cols[b].cells)

ChunkSlices(w) ==
    [k \in DOMAIN threads[w].out.handed |->
        ChunkSlice(threads[w].out.handed[k])]
SorSlices == [k \in DOMAIN sor_ret.handed |-> SorSlice(sor_ret.handed[k])]

Finished(w) == w \in 1..Len(threads) /\ threads[w].status = "finished"

\* C5: in every partial table of a worker, in from_file's Table while it
\* is merged and when it is returned, and in every chunk SorTerator::next
\* returns, all columns have the same length; a partial table and a chunk
\* have one row per accepted line and none per rejected line.
C5_ColumnsSameLength ==
    /\ \A w \in 1..Len(threads) : Finished(w) =>
           /\ EqualLength(threads[w].out.cols)
           /\ \A c \in DOMAIN threads[w].out.cols :
                  Len(threads[w].out.cols[c].cells)
                      = Len(AcceptedRows(ChunkSlices(w)))
    /\ EqualLength(parsed_data)
    /\ sor_ret.kind = "Some" =>
           /\ EqualLength(sor_ret.cols)
           /\ \A c \in DOMAIN sor_ret.cols :
                  Len(sor_ret.cols[c].cells) = Len(AcceptedRows(SorSlices))

\* C5 witness: a returned Table of three columns with a row from a line
\* shorter than the schema, after a worker dropped another line
C5_Witness ==
    /\ mode = "from_file" /\ pc = "done"
    /\ Len(parsed_data) = 3 /\ NumRows(parsed_data) >= 1
    /\ \E i \in 1..NumRows(parsed_data) :
           /\ parsed_data[1].cells[i] # NullData
           /\ parsed_data[3].cells[i] = NullData
    /\ \E w \in 1..Len(threads) :
           Len(threads[w].out.handed) > NumRows(threads[w].out.cols)

WellTyped(cols) ==
    /\ Len(cols) = Len(schema)
    /\ \A c \in DOMAIN cols :
           /\ cols[c].variant = schema[c]
           /\ \A k \in DOMAIN cols[c].cells :
                  cols[c].cells[k].t \in {schema[c], "Null"}

\* C6: every column of a partial table, of from_file's Table and of a
\* SorTerator chunk has the variant of its schema column and every present
\* cell has that type; no thread panics with "Parser Failed" or
\* "Unexpected result from thread".
C6_ColumnsTypedBySchema ==
    /\ panic \notin {"Parser Failed", "Unexpected result from thread"}
    /\ sor_ret.why # "Parser Failed"
    /\ \A w \in 1..Len(threads) :
           /\ threads[w].out.why # "Parser Failed"
           /\ Finished(w) => WellTyped(threads[w].out.cols)
    /\ (mode = "from_file" /\ pc \in {"join", "done"}) =>
           WellTyped(parsed_data)
    /\ sor_ret.kind = "Some" => WellTyped(sor_ret.cols)

\* C6 witness: a returned Table with a row that has a present Int, Bool
\* and String cell
C6_Witness ==
    /\ mode = "from_file" /\ pc = "done"
    /\ schema = <<"Int", "Bool", "String">>
    /\ \E i \in 1..NumRows(parsed_data) :
           \A c \in 1..3 : parsed_data[c].cells[i].t = schema[c]

\* C10: a line the parser does not accept never ends a reader: no worker
\* and no SorTerator::next panics, and what a worker returns holds exactly
\* the rows of the accepted lines, as if the other lines were not there.
C10_RejectedLineNotFatal ==
    /\ \A w \in 1..Len(threads) :
           /\ threads[w].status # "panicked"
           /\ Finished(w) =>
                  threads[w].out.cols = ColsOfRows(AcceptedRows(ChunkSlices(w)))
    /\ mode = "SorTerator" => pc # "panicked"
    /\ sor_ret.kind = "Some" =>
           sor_ret.cols = ColsOfRows(AcceptedRows(SorSlices))

\* the field f alone parses as a missing value or as type t
FieldMatches(f, t) ==
    parse_delimited_null(f).ok \/ parse_typed_field(t, f).ok

\* the cell of the field f in a column of type t
FieldValue(f, t) ==
    IF parse_delimited_null(f).ok THEN NullData
    ELSE parse_typed_field(t, f).val

\* C8: every accepted result has as many cells as the schema has columns;
\* a non-empty line with fewer fields than that, each matching its column,
\* is accepted, with the cells of its fields and then Nulls.
C8_MissingFieldsAreNull ==
    /\ (pc # "call" /\ line_ret.kind = "Some") =>
           Len(line_ret.row) = Len(schema)
    /\ ( /\ pc # "call"
         /\ line # <<>>
         /\ Len(fields) < Len(schema)
         /\ \A j \in DOMAIN fields : FieldMatches(fields[j], schema[j]) )
       => /\ line_ret.kind = "Some"
          /\ Len(line_ret.row) = Len(schema)
          /\ \A j \in DOMAIN fields :
                 line_ret.row[j] = FieldValue(fields[j], schema[j])
          /\ \A j \in (Len(fields) + 1)..Len(schema) :
                 line_ret.row[j] = NullData

\* C8 witness: one present field against a schema of two columns
C8_Witness ==
    /\ pc = "returned"
    /\ Len(fields) = 1 /\ Len(schema) = 2
    /\ line_ret.kind = "Some"
    /\ line_ret.row[1].t # "Null"
    /\ line_ret.row[2] = NullData

\* C9: a line with more fields than the schema has columns, the first of
\* them matching their columns, is accepted as exactly the cells of those
\* first fields.
C9_ExtraFieldsDiscarded ==
    ( /\ pc # "call"
      /\ Len(fields) > Len(schema)
      /\ \A j \in DOMAIN schema : FieldMatches(fields[j], schema[j]) )
    => /\ line_ret.kind = "Some"
       /\ line_ret.row
              = [j \in DOMAIN schema |-> FieldValue(fields[j], schema[j])]

\* C9 witness: three fields against two columns, the third not even a field
C9_Witness ==
    /\ pc = "returned"
    /\ Len(fields) = 3 /\ Len(schema) = 2
    /\ fields[3] = <<"<", "b", " ", "c", ">">>
    /\ line_ret.kind = "Some"
    /\ line_ret.row[1].t # "Null" /\ line_ret.row[2].t # "Null"

\* the line ends in bytes that are no field and no whitespace
HasJunk == line # <<>> /\ line[Len(line)] = "x"

\* C11: with a schema the cell of a field has the type of its column, not
\* the type parse_line would give it: the field <1> is String("1"),
\* Float(1.0), Int(1) or Bool(true) by its column, and the line is rejected
\* for <1.2> or <12> in a Bool column and for <1.2> in an Int column.
C11_FieldTypedByColumn ==
    (mode = "parse_line_with_schema" /\ pc = "returned") =>
        /\ line_ret.kind = "Some" =>
               \A c \in DOMAIN line_ret.row :
                   line_ret.row[c].t \in {schema[c], "Null"}
        /\ (fields # <<>> /\ fields[1] = Field_1 /\ Len(schema) = 1) =>
               line_ret = LineSome(<<MkData(schema[1], <<"1">>, 0)>>)
        /\ (fields # <<>> /\ fields[1] = Field_1 /\ line_ret.kind = "Some")
               => line_ret.row[1] = MkData(schema[1], <<"1">>, 0)
        /\ \A c \in DOMAIN fields \cap DOMAIN schema :
               ( \/ schema[c] = "Bool" /\ fields[c] \in {Field_1_2, Field_12}
                 \/ schema[c] = "Int" /\ fields[c] = Field_1_2 )
               => line_ret.kind = "None"

\* C11 witness: <1><1> read as Float and String, and <1><1.2> rejected by
\* an Int column
C11_Witness ==
    /\ mode = "parse_line_with_schema" /\ pc = "returned"
    /\ \/ /\ fields = <<Field_1, Field_1>>
          /\ schema = <<"Float", "String">>
          /\ line_ret.row = <<MkData("Float", <<"1">>, 0),
                              MkData("String", <<"1">>, 0)>>
       \/ /\ fields = <<Field_1, Field_1_2>>
          /\ schema = <<"Bool", "Int">>
          /\ line_ret.kind = "None"

\* the value parse_line is to give a field: Null, Bool, Int, Float, String
ExpectedCell(f) ==
    CASE f \in {Field_empty, Field_blank} -> NullData
      [] f = Field_1 -> MkData("Bool", <<"1">>, 0)
      [] f = Field_0 -> MkData("Bool", <<"0">>, 0)
      [] f = Field_12 -> MkData("Int", <<"1", "2">>, 0)
      [] f = Field_plus1 -> MkData("Int", <<"1">>, 0)
      [] f = Field_i64_max -> MkData("Int", I64MaxDigits, 0)
      [] f = Field_1_2 -> MkData("Float", <<"1", "2">>, -1)
      [] f = Field_hello -> MkData("String", <<"h", "e", "l", "l", "o">>, 0)
      [] OTHER -> MkData("Invalid", <<>>, 0)

\* C12: every cell of a row parse_line returns is its field classified in
\* the order Null, Bool, Int, Float, String: an empty or blank payload is
\* Null, 1 and 0 are Bool, 12 and +1 are Int, 1.2 is Float, hello is String;
\* and a line of such fields is accepted.
C12_ConservativePrecedence ==
    (mode = "parse_line" /\ pc = "returned") =>
        /\ line_ret.kind = "Some" =>
               /\ Len(line_ret.row) = Len(fields)
               /\ \A k \in DOMAIN fields :
                      line_ret.row[k] = ExpectedCell(fields[k])
        /\ (~HasJunk /\ fields # <<>>
                /\ \A k \in DOMAIN fields : fields[k] \in ValidFields)
               => line_ret.kind = "Some"

\* C12 witness: <1><12> is a Bool and an Int, <1.2><hello> a Float and a
\* String
C12_Witness ==
    /\ mode = "parse_line" /\ pc = "returned"
    /\ line_ret.kind = "Some"
    /\ \/ fields = <<Field_1, Field_12>>
       \/ fields = <<Field_1_2, Field_hello>>

\* the line is the empty line, or well-formed fields (a digit run of any
\* length is one) each with whitespace or nothing around it
WellFormedLine ==
    /\ ~HasJunk
    /\ \A k \in DOMAIN fields : fields[k] \notin InvalidFields
    /\ fields = <<>> => line = <<>>

\* C13: parse_line returns Some exactly for the empty line and for the
\* lines made of well-formed fields and the whitespace around them, and
\* None for every other line.
C13_SomeIffWellFormed ==
    (mode = "parse_line" /\ pc # "call") =>
        /\ line_ret.kind = "Some" <=> WellFormedLine
        /\ line_ret.kind = "None" <=> ~WellFormedLine

\* C14: no row of a returned Table and no row of a worker's partial table
\* comes from a line of length 0.
C14_EmptyLineDropped ==
    /\ (mode = "from_file" /\ pc = "done") =>
           \A r \in DOMAIN row_src : LineAt(file, row_src[r]) # <<NL>>
    /\ \A w \in 1..Len(threads) :
           \A r \in DOMAIN threads[w].out.src :
               LineAt(file, threads[w].out.src[r]) # <<NL>>

\* C20: no call of parse_line or parse_line_with_schema ends in a panic: a
\* digit run outside the i64 range is an Err of parse_int, so parse_line
\* reads the field as a Float and an Int column rejects the line; and the
\* minimum -9223372036854775808 is an Int.
C20_OutOfRangeIsParseFailure ==
    pc # "call" =>
        /\ line_ret.kind # "Panic"
        /\ (mode = "parse_line" /\ fields = <<Field_i64_min>> /\ ~HasJunk) =>
               line_ret = LineSome(<<MkData("Int",
                              <<"-">> \o Take(I64MaxDigits, 18) \o <<"8">>,
                              0)>>)
        /\ (mode = "parse_line" /\ fields = <<Field_i64_over>> /\ ~HasJunk) =>
               /\ line_ret.kind = "Some"
               /\ line_ret.row[1].t = "Float"
        /\ ( /\ mode = "parse_line_with_schema"
             /\ fields # <<>> /\ fields[1] \in {Field_i64_over, Field_i64_long}
             /\ schema[1] = "Int" ) =>
               line_ret.kind = "None"

\* infer_schema has returned a schema
Inferred == pc # "infer" /\ infer_ret.status = "ok"

\* the starts of the lines infer_schema read
SampledStarts == {p \in LineStarts(file) : p < infer_ret.pos}

\* what parse_line makes of the line of the file that starts at p
RowAt(p) == parse_line(LinesItem(file, p))

\* the sampled lines that parse_line accepts
AcceptedStarts == {p \in SampledStarts : RowAt(p).kind = "Some"}

MaxOf(S) == IF S = {} THEN 0 ELSE CHOOSE m \in S : \A x \in S : x <= m

\* the widest of the accepted sampled lines
WidestStarts ==
    LET w == MaxOf({Len(RowAt(p).row) : p \in AcceptedStarts})
    IN  {p \in AcceptedStarts : Len(RowAt(p).row) = w}

\* C15: the schema has as many columns as the widest sampled line that
\* parse_line accepts has fields; the retained rows are the accepted
\* sampled rows of exactly that width.
C15_WidthIsWidestAccepted ==
    Inferred =>
        /\ Len(schema) = MaxOf({Len(RowAt(p).row) : p \in AcceptedStarts})
        /\ \A k \in DOMAIN infer_ret.rows :
               Len(infer_ret.rows[k]) = Len(schema)
        /\ Len(infer_ret.rows) = Cardinality(WidestStarts)

\* C15 witness: a schema of two columns from a file with a rejected line of
\* three fields
C15_Witness ==
    /\ Inferred
    /\ Len(schema) = 2
    /\ \E p \in SampledStarts :
           /\ RowAt(p).kind = "None"
           /\ LinesItem(file, p) = Field_1 \o Field_1 \o Field_plus_space_1

\* the type of highest precedence among the types S, Bool when there is none
MostDominant(S) ==
    IF "String" \in S THEN "String"
    ELSE IF "Float" \in S THEN "Float"
    ELSE IF "Int" \in S THEN "Int"
    ELSE "Bool"

\* C16: the type of column c is the type of highest precedence among the
\* cells c of the widest accepted sampled rows that are not Null, and Bool
\* when all of them are Null.
C16_TypeIsMostDominant ==
    Inferred =>
        \A c \in DOMAIN schema :
            schema[c] = MostDominant({RowAt(p).row[c].t : p \in WidestStarts}
                                         \ {"Null"})

\* C16 witness: a Float over an Int in the first column, and a second
\* column of a Bool and a Null
C16_Witness ==
    /\ Inferred
    /\ schema = <<"Float", "Bool">>
    /\ Len(infer_ret.rows) = 2
    /\ {infer_ret.rows[k][1].t : k \in 1..2} = {"Float", "Int"}
    /\ {infer_ret.rows[k][2].t : k \in 1..2} = {"Null", "Bool"}

\* the start of the last line of the file
LastStart == MaxOf(LineStarts(file))

\* the type a is t or of higher precedence than t
AtLeast(a, t) == MostDominant({a, t}) = a

\* C17 as stated: in a file of more than SampleLines lines the last line,
\* when parse_line accepts it, is among the lines sampled: the schema is at
\* least as wide as it, and when as wide, each column's type dominates the
\* type of its cell.
C17_LastLinesSampled ==
    (Inferred /\ Cardinality(LineStarts(file)) > SampleLines
        /\ RowAt(LastStart).kind = "Some") =>
        /\ Len(schema) >= Len(RowAt(LastStart).row)
        /\ Len(schema) = Len(RowAt(LastStart).row) =>
               \A c \in DOMAIN schema :
                   AtLeast(schema[c], RowAt(LastStart).row[c].t)

\* C17 amended: infer_schema samples one band, the first SampleLines lines
\* of the file (all of a shorter file), and every retained row is the row
\* of one of them; a file that holds <1> in each of its first SampleLines
\* lines has a schema of one Bool column whatever its later lines are.
C17_OnlyFirstLinesSampled ==
    Inferred =>
        /\ infer_ret.sampled = Min(SampleLines, Cardinality(LineStarts(file)))
        /\ Cardinality(SampledStarts) = infer_ret.sampled
        /\ \A p \in LineStarts(file) \ SampledStarts :
               \A q \in SampledStarts : q < p
        /\ \A k \in DOMAIN infer_ret.rows :
               \E p \in SampledStarts : RowAt(p).row = infer_ret.rows[k]
        /\ ( /\ Len(file) > Len(Prefix(SampleLines))
             /\ Take(file, Len(Prefix(SampleLines))) = Prefix(SampleLines) )
           => schema = <<"Bool">>

\* C17 witness: the line after the first SampleLines has two fields, and
\* the schema one column
C17_Witness ==
    /\ Inferred
    /\ Cardinality(LineStarts(file)) = SampleLines + 1
    /\ LinesItem(file, LastStart) = Field_12 \o Field_1
    /\ schema = <<"Bool">>

\* the file that agrees with this one on the lines sampled and goes on with
\* the bytes t; a file of fewer than SampleLines lines agrees only with
\* itself
Agreeing(t) ==
    IF infer_ret.sampled < SampleLines THEN file
    ELSE Take(file, infer_ret.pos)
             \o (IF file[infer_ret.pos] = NL THEN <<>> ELSE <<NL>>)
             \o t

\* what may follow the first SampleLines lines: nothing, a wider line, a
\* line of a more dominant type
OtherTails ==
    {<<>>, Field_12 \o Field_1 \o <<NL>>, Field_hello \o Field_hello}

\* C18: every file that agrees with this one on its first SampleLines lines
\* has the same schema; and the schema is that of the file at every step of
\* from_file, whatever from is.
C18_SchemaOfFirstLinesOnly ==
    Inferred =>
        /\ \A t \in OtherTails :
               infer_schema_from_reader(Agreeing(t)).schema = schema
        /\ mode = "sorer" => schema = infer_schema_from_reader(file).schema

\* C18 witness: a file of more than SampleLines lines, another that differs
\* from it after them
C18_Witness ==
    /\ Inferred
    /\ Cardinality(LineStarts(file)) > SampleLines
    /\ \E t \in OtherTails : Agreeing(t) # file

\* C19: on the empty file neither infer_schema nor from_file nor a worker
\* panics, the schema has no column, and the Table returned has no column
\* and no row.
C19_EmptyFileIsEmptyTable ==
    (mode = "sorer" /\ file = <<>>) =>
        /\ pc # "panicked"
        /\ \A w \in 1..Len(threads) : threads[w].status # "panicked"
        /\ pc # "infer" => schema = <<>> /\ infer_ret.status = "ok"
        /\ pc \in {"join", "done"} => parsed_data = <<>>
        /\ \A w \in 1..Len(threads) :
               Finished(w) => threads[w].out.cols = <<>>

\* C19 witness: from_file has returned on the empty file with the most
\* workers
C19_Witness ==
    /\ mode = "sorer" /\ file = <<>>
    /\ pc = "done"
    /\ num_threads = MaxThreads
    /\ parsed_data = <<>>

\* C21: of the chunks SorTerator::next has returned, every one before the
\* last has exactly chunk_size rows and the last has between 1 and
\* chunk_size rows; a chunk of fewer rows than chunk_size is returned only
\* at the end of the file; and a call of next made at the end of the file
\* returns None.
C21_ChunkSizes ==
    /\ [](mode = "SorTerator" =>
            \A k \in DOMAIN sor_chunks :
                /\ NumRows(sor_chunks[k]) >= 1
                /\ NumRows(sor_chunks[k]) <= chunk_size
                /\ k < Len(sor_chunks) => NumRows(sor_chunks[k]) = chunk_size
                /\ NumRows(sor_chunks[k]) < chunk_size => sor_pos = Len(file))
    /\ [][(mode = "SorTerator" /\ sor_pos = Len(file))
             => (sor_ret'.kind = "None" /\ sor_chunks' = sor_chunks)]_vars

\* C21 witness: three accepted rows with chunk_size 2 have given a chunk of
\* 2 rows, a chunk of 1 row, and then None
C21_Witness ==
    /\ mode = "SorTerator" /\ chunk_size = 2
    /\ Len(sor_chunks) = 2
    /\ NumRows(sor_chunks[1]) = 2 /\ NumRows(sor_chunks[2]) = 1
    /\ sor_ret.kind = "None"

\* the number of bytes of the file from offset s through the next newline,
\* the newline included (to the end of the file when there is none); 0 at
\* or past the end of the file
ToNewline(s) ==
    IF s >= Len(file) THEN 0
    ELSE IF RunNotIn(file, {NL}, s) = Len(file) THEN Len(file) - s
    ELSE RunNotIn(file, {NL}, s) + 1 - s

\* the least n with n * d >= a
CeilDiv(a, d) == CHOOSE n \in 0..a : n * d >= a /\ (n = 0 \/ (n - 1) * d < a)

\* the bytes from_file is to read
NumBytes == IF len = usize_MAX THEN Len(file) - from ELSE len

\* C22: the plan has num_threads units; with step = ceil(num_bytes /
\* num_threads), unit i starts at from + i * step; every unit but the last
\* has length step + l + 1, l the bytes from the start of the next unit
\* through the next newline, and the last unit has length step.  The plan
\* is this one when the planning loop ends, and no later step changes it.
C22_PlanArithmetic ==
    /\ []((mode = "from_file" /\ pc = "spawn" /\ threads = <<>>) =>
            /\ Len(work) = num_threads
            /\ \A i \in 1..num_threads :
                   /\ work[i].from
                          = from + (i - 1) * CeilDiv(NumBytes, num_threads)
                   /\ work[i].len
                          = IF i < num_threads
                            THEN CeilDiv(NumBytes, num_threads)
                                     + ToNewline(from
                                                   + i * CeilDiv(NumBytes,
                                                                 num_threads))
                                     + 1
                            ELSE CeilDiv(NumBytes, num_threads))
    /\ [][(mode = "from_file" /\ pc # "plan") => work' = work]_vars

\* C22 witness: a plan of three units for a finite len that is no multiple
\* of 3, the second unit starting inside a line and the third at the end
\* of the file
C22_Witness ==
    /\ mode = "from_file" /\ pc # "plan"
    /\ num_threads = 3 /\ len # usize_MAX /\ len % 3 # 0
    /\ work[2].from < Len(file) /\ file[work[2].from] # NL
    /\ work[1].len > work[3].len + 2
    /\ work[3].from >= Len(file)
    /\ work[2].len = work[3].len + 1

\* the worker that ended in the last step of a worker, if it did not panic;
\* every worker that ends is this worker in the state its last step leaves,
\* and what it returned does not change afterwards
JustEnded ==
    IF finished # <<>> /\ Finished(finished[Len(finished)])
    THEN {finished[Len(finished)]}
    ELSE {}

\* consumed before the loop of worker w: the length of the line it skipped
SkippedBy(w) == IF work[w].from # 0 THEN ToNewline(work[w].from) ELSE 0

\* consumed by worker w once it has read the line that ends at offset e
ConsumedAt(w, e) == e - work[w].from

\* the offset of the line the loop of worker w read last, the one that
\* stopped it
StoppedAt(w) ==
    IF threads[w].out.handed = <<>> THEN work[w].from + SkippedBy(w)
    ELSE threads[w].out.handed[Len(threads[w].out.handed)].e

\* C23: the lines a worker parsed are the lines that follow its skipped
\* line, one after the other, each not empty and each leaving consumed
\* below length; the line after them is empty (end of file) or brings
\* consumed to length or above, and neither it nor a later line is parsed;
\* every row comes from a parsed line.  This holds of a worker when it
\* ends, and what an ended worker left is not changed afterwards.
C23_WorkerStopRule ==
    /\ [](\A w \in JustEnded :
            /\ \A k \in DOMAIN threads[w].out.handed :
                   /\ threads[w].out.handed[k].s
                          = IF k = 1 THEN work[w].from + SkippedBy(w)
                            ELSE threads[w].out.handed[k - 1].e
                   /\ threads[w].out.handed[k].e
                          = threads[w].out.handed[k].s
                                + ToNewline(threads[w].out.handed[k].s)
                   /\ ToNewline(threads[w].out.handed[k].s) > 0
                   /\ ConsumedAt(w, threads[w].out.handed[k].e) < work[w].len
            /\ \/ ToNewline(StoppedAt(w)) = 0
               \/ ConsumedAt(w, StoppedAt(w) + ToNewline(StoppedAt(w)))
                      >= work[w].len
            /\ \A r \in DOMAIN threads[w].out.src :
                   \E k \in DOMAIN threads[w].out.handed :
                       threads[w].out.handed[k].s = threads[w].out.src[r])
    /\ [][\A w \in 1..Len(threads) :
              threads[w].status # "running" => threads'[w] = threads[w]]_vars

\* C23 witness: a worker that skipped a line and parsed the next into a
\* row, and a worker that parsed a line into a row and stopped at a line of
\* the file that brought consumed to length or above
C23_Witness ==
    /\ \E w \in 1..Len(threads) :
           /\ Finished(w)
           /\ SkippedBy(w) > 0
           /\ threads[w].out.src # <<>>
    /\ \E w \in 1..Len(threads) :
           /\ Finished(w)
           /\ threads[w].out.src # <<>>
           /\ ToNewline(StoppedAt(w)) > 0
           /\ ConsumedAt(w, StoppedAt(w) + ToNewline(StoppedAt(w)))
                  >= work[w].len

\* the offset where worker w is to start parsing: offset 0, or the offset
\* after the first newline at or after its start
FirstParsed(w) ==
    IF work[w].from = 0 THEN 0 ELSE work[w].from + ToNewline(work[w].from)

\* worker w starts on a line start other than offset 0
OnLineStart(w) ==
    /\ work[w].from > 0 /\ work[w].from < Len(file)
    /\ file[work[w].from] = NL

\* C24: a worker that starts at an offset other than 0 parses no byte
\* before the end of the line its start lies in, the line that starts at
\* its start included, and the first line it parses starts right there; a
\* worker that starts at offset 0 parses the first line of the file, when
\* that line leaves consumed below length.
C24_FirstLineSkip ==
    \A w \in JustEnded :
        /\ \A k \in DOMAIN threads[w].out.handed :
               threads[w].out.handed[k].s >= FirstParsed(w)
        /\ threads[w].out.handed # <<>> =>
               threads[w].out.handed[1].s = FirstParsed(w)
        /\ (work[w].from = 0 /\ file # <<>>
                /\ ToNewline(0) < work[w].len) =>
               /\ threads[w].out.handed # <<>>
               /\ threads[w].out.handed[1].s = 0
        /\ (work[w].from # 0 /\ ToNewline(FirstParsed(w)) > 0
                /\ ConsumedAt(w, FirstParsed(w) + ToNewline(FirstParsed(w)))
                       < work[w].len) =>
               threads[w].out.handed # <<>>

\* C24 witness: a worker that started on a line start and did not parse
\* that line, a worker that started inside a line and parsed the next, and
\* a worker that started at offset 0 and parsed the first line
C24_Witness ==
    /\ \E w \in 1..Len(threads) :
           /\ Finished(w) /\ OnLineStart(w)
           /\ FirstParsed(w) > work[w].from
    /\ \E w \in 1..Len(threads) :
           /\ Finished(w) /\ work[w].from > 0 /\ ~OnLineStart(w)
           /\ threads[w].out.handed # <<>>
    /\ \E w \in 1..Len(threads) :
           /\ Finished(w) /\ work[w].from = 0
           /\ threads[w].out.handed # <<>>

\* the partial tables of the workers 1..k appended in that order
RECURSIVE MergedUpTo(_)
MergedUpTo(k) ==
    IF k = 0 THEN init_columnar(schema)
    ELSE MergeCols(MergedUpTo(k - 1), threads[k].out.cols)

\* the Table holds the partial tables of the workers joined so far, in plan
\* order, each appended after its worker ended
MergedInPlanOrder ==
    /\ pc \in {"join", "done"} => parsed_data = MergedUpTo(joined)
    /\ \A w \in 1..joined : ~Running(w)

\* from_file returns only when every worker has ended and is merged
ReturnedAfterAll ==
    pc = "done" =>
        /\ joined = num_threads
        /\ Len(threads) = num_threads
        /\ \A w \in 1..num_threads : ~Running(w)

ReadsConsume ==
    \A w \in 1..Len(threads) :
        /\ Len(threads[w].out.handed) <= Len(file)
        /\ \A k \in DOMAIN threads[w].out.handed :
               threads[w].out.handed[k].e > threads[w].out.handed[k].s

\* from_file has ended and so has every worker of its plan
AllEnded ==
    /\ pc \in {"done", "panicked"}
    /\ Len(threads) = num_threads
    /\ \A w \in 1..num_threads : ~Running(w)

\* C26: under fair scheduling every call of from_file ends, with every one
\* of its num_threads workers ended, whatever the file, from, len and
\* num_threads are; every line a worker reads before it stops consumes at
\* least one byte.
C26_Terminates ==
    /\ []ReadsConsume
    /\ (mode = "from_file") ~> AllEnded

\* C26 witness: from_file has returned with the most workers, one of them
\* stopped by the end of the file and one by its length, and one of them
\* after it parsed a line
C26_Witness ==
    /\ mode = "from_file" /\ pc = "done" /\ num_threads = MaxThreads
    /\ \E w \in 1..num_threads : ToNewline(StoppedAt(w)) = 0
    /\ \E w \in 1..num_threads : ToNewline(StoppedAt(w)) > 0
    /\ \E w \in 1..num_threads : threads[w].out.handed # <<>>

\* the types of the cells a column may hold
CellTypes == DataTypes \cup {"Null"}

\* a cell of type t; the fold looks at the type of a cell only
CellOf(t) == MkData(t, <<>>, 0)

\* get_dominant_data_type as an operation on two types
Dominate(a, b) == get_dominant_data_type(a, CellOf(b))

\* the orders the retained rows can be put in
RowOrders ==
    {p \in [DOMAIN infer_ret.rows -> DOMAIN infer_ret.rows] :
        \A i, j \in DOMAIN infer_ret.rows : p[i] = p[j] => i = j}

\* the running type of column c after the first k retained rows, taken one
\* after the other without the break at String
RECURSIVE FoldAll(_, _, _)
FoldAll(rows, c, k) ==
    IF k = 0 THEN "Bool"
    ELSE get_dominant_data_type(FoldAll(rows, c, k - 1), rows[k][c])

\* C27: get_dominant_data_type returns the type of highest precedence of
\* its two sides (String, Float, Int, Bool), a Null cell leaving the type
\* as it is; on types it is commutative and associative; the type of a
\* column is the same for every order of the retained rows and the same
\* without the break at String, and the running type never goes down in
\* precedence.
C27_DominanceFold ==
    /\ \A a \in DataTypes : \A b \in CellTypes :
           get_dominant_data_type(a, CellOf(b))
               = MostDominant({a, b} \ {"Null"})
    /\ \A a, b \in DataTypes : Dominate(a, b) = Dominate(b, a)
    /\ \A a, b, c \in DataTypes :
           Dominate(Dominate(a, b), c) = Dominate(a, Dominate(b, c))
    /\ Inferred =>
           \A c \in DOMAIN schema :
               /\ \A p \in RowOrders :
                      schema_of(Len(schema),
                                [k \in DOMAIN infer_ret.rows |->
                                    infer_ret.rows[p[k]]])[c] = schema[c]
               /\ FoldAll(infer_ret.rows, c, Len(infer_ret.rows)) = schema[c]
               /\ \A k \in DOMAIN infer_ret.rows :
                      /\ AtLeast(FoldAll(infer_ret.rows, c, k),
                                 FoldAll(infer_ret.rows, c, k - 1))
                      /\ AtLeast(dominant_loop(infer_ret.rows, c, 1, k,
                                               "Bool"),
                                 dominant_loop(infer_ret.rows, c, 1, k - 1,
                                               "Bool"))

\* C27 witness: a column whose rows are a String, a Float and an Int in
\* that order, so that the loop breaks at the first row
C27_Witness ==
    /\ Inferred
    /\ schema = <<"String">>
    /\ Len(infer_ret.rows) = 3
    /\ infer_ret.rows[1][1].t = "String"
    /\ infer_ret.rows[2][1].t = "Float"
    /\ infer_ret.rows[3][1].t = "Int"

\* the bytes of the line of the file that starts at s, without its newline
LineBytes(s) ==
    SubSeq(file, s + 1,
           s + ToNewline(s) - (IF file[s + ToNewline(s)] = NL THEN 1 ELSE 0))

\* the rows parse_line_with_schema accepts among the lines that start at
\* the offsets S, in the order of the file
RECURSIVE RowsOfLines(_)
RowsOfLines(S) ==
    IF S = {} THEN <<>>
    ELSE RowsOfLines(S \ {MaxOf(S)})
             \o (IF parse_line_with_schema(LineBytes(MaxOf(S)), schema).kind
                       = "Some"
                 THEN <<parse_line_with_schema(LineBytes(MaxOf(S)),
                                               schema).row>>
                 ELSE <<>>)

\* the chunks chs appended column by column, in order
RECURSIVE ConcatChunks(_)
ConcatChunks(chs) ==
    IF chs = <<>> THEN init_columnar(schema)
    ELSE MergeCols(ConcatChunks(Take(chs, Len(chs) - 1)), chs[Len(chs)])

\* C28: the chunks SorTerator::next has returned, appended in order, hold
\* exactly the rows parse_line_with_schema accepts among the lines read so
\* far, each once and in file order, whatever chunk_size is; when next
\* returns None every line of the file has been read, so the chunks hold
\* the accepted rows of the whole file.
C28_StreamComplete ==
    (mode = "SorTerator" /\ sor_ret.kind # "Panic") =>
        /\ ConcatChunks(sor_chunks)
               = ColsOfRows(RowsOfLines({s \in LineStarts(file) :
                                            s < sor_pos}))
        /\ sor_ret.kind = "None" =>
               /\ sor_pos = Len(file)
               /\ ConcatChunks(sor_chunks)
                      = ColsOfRows(RowsOfLines(LineStarts(file)))

\* C28 witness: a stream that ended after two chunks, over a file with a
\* rejected line that is not blank between two accepted lines
C28_Witness ==
    /\ mode = "SorTerator" /\ sor_ret.kind = "None"
    /\ Len(sor_chunks) = 2
    /\ NumRows(ConcatChunks(sor_chunks)) = 2
    /\ \E s \in LineStarts(file) :
           /\ LineBytes(s) # <<>>
           /\ parse_line_with_schema(LineBytes(s), schema).kind = "None"
           /\ \E a, b \in LineStarts(file) :
                  /\ a < s /\ s < b
                  /\ parse_line_with_schema(LineBytes(a), schema).kind
                         = "Some"
                  /\ parse_line_with_schema(LineBytes(b), schema).kind
                         = "Some"

\* the chunks of a SorTerator over the file, from offset pos on, appended
\* to acc column by column until next returns None
RECURSIVE SorCollect(_, _, _)
SorCollect(cs, pos, acc) ==
    IF sor_next(schema, file, cs, pos).kind = "Some"
    THEN SorCollect(cs, sor_next(schema, file, cs, pos).pos,
                    MergeCols(acc, sor_next(schema, file, cs, pos).cols))
    ELSE acc

\* C29: the Table from_file returns for the whole file (from = 0, len =
\* usize::MAX), with any number of workers, is the chunks of a SorTerator
\* over the same file and schema appended in order, whatever chunk_size
\* is.
C29_ReadersAgree ==
    (mode = "from_file" /\ pc = "done" /\ from = 0 /\ len = usize_MAX) =>
        \A cs \in 1..MaxChunk :
            parsed_data = SorCollect(cs, 0, init_columnar(schema))

\* the padding the line was built with
PadOf == IF line # <<>> /\ Head(line) = " " THEN <<" ">> ELSE <<>>

\* the fields fs, each after the padding pad
RECURSIVE FieldsPrefix(_, _)
FieldsPrefix(fs, pad) ==
    IF fs = <<>> THEN <<>>
    ELSE pad \o Head(fs) \o FieldsPrefix(Tail(fs), pad)

\* the line up to the end of the field of the last column
ConsumedPrefix == FieldsPrefix(Take(fields, Len(schema)), PadOf)

\* what may follow the field of the last column: nothing, a field, junk
\* after a space, a field that is none, an opening that is never closed
Remainders ==
    {<<>>, Field_hello, <<" ">> \o Junk, Field_bye_world, <<"<">>}

\* lines of whitespace only
BlankLines == {<<" ">>, <<NL>>, <<"\t", " ">>, <<"\r", NL>>}

=============================================================================
